---- MODULE Spec2Model ----
(***************************************************************************)
(* The three donut examples (basic_triangle, vertex_buffer,                *)
(* deferred_shading) as one state machine.  The variable `example` fixes   *)
(* which of the three programs runs.  main() is a sequence of steps (pc);  *)
(* every IRenderPass handler (Init, Animate, BackBufferResizing, Render)   *)
(* is one action that performs the whole handler and leaves the calls it   *)
(* recorded in frameLog.                                                   *)
(***************************************************************************)
EXTENDS Integers, Sequences, FiniteSets, TLC

VARIABLES
    example,            \* which program: "basic_triangle", "vertex_buffer", "deferred_shading"
    pc,                 \* position of main()
    exitCode,           \* value returned by main(), -1 while it has not returned
    mainLog,            \* calls made by main(), in order
    devState,           \* the DeviceManager object
    exampleState,       \* the example object of main's inner scope
    registered,         \* the example is in the device manager's render-pass list
    calls,              \* number of calls of each handler on the example
    lastCall,           \* handler called last
    initResult,         \* what Init returned: "none", "true", "false"
    shaderFailed,       \* the shader factory returned a null shader during Init
    m_VertexShader,     \* basic_triangle, vertex_buffer: vertex shader handle is non-null
    m_PixelShader,      \* basic_triangle, vertex_buffer: pixel shader handle is non-null
    m_BindingSets,      \* vertex_buffer: number of binding sets created
    texture,            \* texture handle of the loaded texture: "unset", "null", "valid"
    loadAttempts,       \* number of LoadTextureFromFile calls
    errors,             \* messages passed to log::error / log::fatal, in order
    buffers,            \* device buffers of the example: name -> state
    cmdOpen,            \* m_CommandList is open
    m_Pipeline,         \* basic_triangle, vertex_buffer: pipeline handle is non-null
    pipelineCreates,    \* number of createGraphicsPipeline calls
    m_RenderTargets,    \* deferred_shading: [valid, size]
    rtAllocs,           \* number of RenderTargets::Init calls
    m_GBufferPass,      \* deferred_shading: the G-buffer fill pass exists
    gbufferCreates,     \* number of GBufferFillPass constructions
    m_Rotation,         \* animation angle, in units of 1.1 * tick
    sceneGraph,         \* deferred_shading: the scene graph of SimpleScene
    fbinfo,             \* size of the framebuffer handed to the last Render
    viewports,          \* vertex_buffer: viewports of the last Render, by viewIndex + 1
    frameLog            \* calls recorded by the last Init or Render, in order

vars == <<example, pc, exitCode, mainLog, devState, exampleState, registered,
          calls, lastCall, initResult, shaderFailed, m_VertexShader,
          m_PixelShader, m_BindingSets, texture, loadAttempts,
          errors, buffers, cmdOpen, m_Pipeline, pipelineCreates,
          m_RenderTargets, rtAllocs, m_GBufferPass, gbufferCreates,
          m_Rotation, sceneGraph, fbinfo, viewports, frameLog>>

(***************************************************************************)
(* Bounds of the model.                                                    *)
(***************************************************************************)
MaxDim == 3         \* framebuffer width and height range over 1..MaxDim
MaxFrames == 3      \* Render calls per run
MaxAnimate == 1     \* Animate calls per run
MaxResizes == 2     \* BackBufferResizing calls per run
MaxBytes == 2       \* sizeof of each data array of CubeGeometry.h ranges over 1..MaxBytes

Examples == {"basic_triangle", "vertex_buffer", "deferred_shading"}
FramebufferSizes == (1..MaxDim) \X (1..MaxDim)

(***************************************************************************)
(* Program constants.                                                      *)
(***************************************************************************)
c_NumViews == 4

(***************************************************************************)
(* Helpers on logs.                                                        *)
(***************************************************************************)
Count(e, s) == Cardinality({i \in 1..Len(s) : s[i] = e})
InLog(e, s) == \E i \in 1..Len(s) : s[i] = e
IndexOf(e, s) == CHOOSE i \in 1..Len(s) : s[i] = e /\ \A j \in 1..(i-1) : s[j] # e
Before(a, b, s) == InLog(a, s) /\ InLog(b, s) /\ IndexOf(a, s) < IndexOf(b, s)

NoBuffers == [b \in {} |-> "none"]
NoRenderTargets == [valid |-> FALSE, size |-> <<0, 0>>]
EmptySceneGraph == [root |-> 0, nodes |-> <<>>, refreshed |-> FALSE]
NoCalls == [h \in {"Init", "Animate", "BackBufferResizing", "Render"} |-> 0]

Init ==
    /\ example \in Examples
    /\ pc = "start"
    /\ exitCode = -1
    /\ mainLog = <<>>
    /\ devState = "new"
    /\ exampleState = "none"
    /\ registered = FALSE
    /\ calls = NoCalls
    /\ lastCall = "none"
    /\ initResult = "none"
    /\ shaderFailed = FALSE
    /\ m_VertexShader = FALSE
    /\ m_PixelShader = FALSE
    /\ m_BindingSets = 0
    /\ texture = "unset"
    /\ loadAttempts = 0
    /\ errors = <<>>
    /\ buffers = NoBuffers
    /\ cmdOpen = FALSE
    /\ m_Pipeline = FALSE
    /\ pipelineCreates = 0
    /\ m_RenderTargets = NoRenderTargets
    /\ rtAllocs = 0
    /\ m_GBufferPass = FALSE
    /\ gbufferCreates = 0
    /\ m_Rotation = 0
    /\ sceneGraph = EmptySceneGraph
    /\ fbinfo = <<0, 0>>
    /\ viewports = <<>>
    /\ frameLog = <<>>

exampleVars == <<calls, lastCall, initResult, shaderFailed, m_VertexShader,
                 m_PixelShader, m_BindingSets, texture, loadAttempts,
                 buffers, cmdOpen, m_Pipeline, pipelineCreates,
                 m_RenderTargets, rtAllocs, m_GBufferPass, gbufferCreates,
                 m_Rotation, sceneGraph, fbinfo, viewports, frameLog>>

(***************************************************************************)
(* main(): device creation.                                                *)
(***************************************************************************)
Main_CreateWindowDeviceAndSwapChain ==
    /\ pc = "start"
    /\ \E ok \in BOOLEAN :
         IF ok
         THEN /\ pc' = "construct"
              /\ devState' = "created"
              /\ mainLog' = Append(mainLog, "CreateWindowDeviceAndSwapChain")
              /\ UNCHANGED <<exitCode, errors>>
         ELSE /\ pc' = "done"
              /\ devState' = "failed"
              /\ mainLog' = Append(mainLog, "CreateWindowDeviceAndSwapChain")
              /\ errors' = Append(errors, "Cannot initialize a graphics device with the requested parameters")
              /\ exitCode' = 1
    /\ UNCHANGED <<example, exampleState, registered>>
    /\ UNCHANGED exampleVars

Main_ConstructExample ==
    /\ pc = "construct"
    /\ pc' = "init"
    /\ exampleState' = "alive"
    /\ mainLog' = Append(mainLog, "construct")
    /\ UNCHANGED <<example, exitCode, devState, registered, errors>>
    /\ UNCHANGED exampleVars

(***************************************************************************)
(* main(): the branch on the value of example.Init().                      *)
(***************************************************************************)
\* Variant: the result of Init is ignored.
MainAfterInit_Unchecked(result) == "add"

MainAfterInit(result) == IF result = "true" THEN "add" ELSE "destroy"

(***************************************************************************)
(* The device manager calls Animate, BackBufferResizing and Render on the  *)
(* render passes of its list while RunMessageLoop is running.              *)
(***************************************************************************)
DeviceManager_Dispatches == pc = "loop" /\ registered

Called(h) == [calls EXCEPT ![h] = @ + 1]

(***************************************************************************)
(* basic_triangle                                                          *)
(***************************************************************************)
BasicTriangle_InitResult(vs, ps) == IF ~vs \/ ~ps THEN "false" ELSE "true"

BasicTriangle_Init ==
    /\ example = "basic_triangle"
    /\ pc = "init"
    /\ \E vs \in BOOLEAN, ps \in BOOLEAN :
         LET result == BasicTriangle_InitResult(vs, ps) IN
         /\ m_VertexShader' = vs
         /\ m_PixelShader' = ps
         /\ shaderFailed' = (~vs \/ ~ps)
         /\ initResult' = result
         /\ frameLog' = <<<<"CreateShader", "main_vs">>, <<"CreateShader", "main_ps">>>>
                          \o (IF result = "true" THEN <<<<"createCommandList", "m_CommandList">>>> ELSE <<>>)
         /\ pc' = MainAfterInit(result)
    /\ calls' = Called("Init")
    /\ lastCall' = "Init"
    /\ mainLog' = Append(mainLog, "Init")
    /\ UNCHANGED <<example, exitCode, devState, exampleState, registered, errors,
                   m_BindingSets, texture, loadAttempts, buffers, cmdOpen, m_Pipeline,
                   pipelineCreates, m_RenderTargets, rtAllocs, m_GBufferPass,
                   gbufferCreates, m_Rotation, sceneGraph, fbinfo, viewports>>

BasicTriangle_BackBufferResizing ==
    /\ example = "basic_triangle"
    /\ DeviceManager_Dispatches
    /\ calls["BackBufferResizing"] < MaxResizes
    /\ m_Pipeline' = FALSE
    /\ calls' = Called("BackBufferResizing")
    /\ lastCall' = "BackBufferResizing"
    /\ UNCHANGED <<example, pc, exitCode, mainLog, devState, exampleState, registered,
                   initResult, shaderFailed, m_VertexShader, m_PixelShader, m_BindingSets,
                   texture, loadAttempts, errors, buffers, cmdOpen, pipelineCreates,
                   m_RenderTargets, rtAllocs, m_GBufferPass, gbufferCreates, m_Rotation,
                   sceneGraph, fbinfo, viewports, frameLog>>

BasicTriangle_Animate ==
    /\ example = "basic_triangle"
    /\ DeviceManager_Dispatches
    /\ calls["Animate"] < MaxAnimate
    /\ calls' = Called("Animate")
    /\ lastCall' = "Animate"
    /\ UNCHANGED <<example, pc, exitCode, mainLog, devState, exampleState, registered,
                   initResult, shaderFailed, m_VertexShader, m_PixelShader, m_BindingSets,
                   texture, loadAttempts, errors, buffers, cmdOpen, m_Pipeline,
                   pipelineCreates, m_RenderTargets, rtAllocs, m_GBufferPass,
                   gbufferCreates, m_Rotation, sceneGraph, fbinfo, viewports, frameLog>>

\* Variant: the pipeline is built in every Render.
BasicTriangle_NeedPipeline_Always(pipeline) == TRUE

\* if (!m_Pipeline)
BasicTriangle_NeedPipeline(pipeline) == ~pipeline

BasicTriangle_RenderLog(create) ==
    (IF create THEN <<<<"createGraphicsPipeline", "m_Pipeline">>>> ELSE <<>>)
    \o <<<<"open", "m_CommandList">>,
          <<"ClearColorAttachment", "framebuffer">>,
          <<"setGraphicsState", "m_Pipeline">>,
          <<"draw", "3">>,
          <<"close", "m_CommandList">>,
          <<"executeCommandList", "m_CommandList">>>>

BasicTriangle_Render ==
    /\ example = "basic_triangle"
    /\ DeviceManager_Dispatches
    /\ calls["Render"] < MaxFrames
    /\ \E size \in FramebufferSizes :
         /\ fbinfo' = size
         /\ frameLog' = BasicTriangle_RenderLog(BasicTriangle_NeedPipeline(m_Pipeline))
    /\ pipelineCreates' = pipelineCreates
                            + (IF BasicTriangle_NeedPipeline(m_Pipeline) THEN 1 ELSE 0)
    /\ m_Pipeline' = TRUE
    /\ calls' = Called("Render")
    /\ lastCall' = "Render"
    /\ UNCHANGED <<example, pc, exitCode, mainLog, devState, exampleState, registered,
                   initResult, shaderFailed, m_VertexShader, m_PixelShader, m_BindingSets,
                   texture, loadAttempts, errors, buffers, cmdOpen, m_RenderTargets,
                   rtAllocs, m_GBufferPass, gbufferCreates, m_Rotation, sceneGraph,
                   viewports>>

(***************************************************************************)
(* A device buffer whose createBuffer returned null is passed on to the    *)
(* command list unchecked.  What the command list does with a null handle  *)
(* is undefined: the process either dies there (pc = "crashed") or the     *)
(* call is skipped and the handler carries on.                             *)
(***************************************************************************)
BufferState(ok, permanent) == IF ok THEN permanent ELSE "null"

\* A call that names a buffer is recorded with its byte size, its byte offset
\* and the resource state or the data it is given.
BufferCall(op, name, size, offset, detail) == <<op, name, size, offset, detail>>

BufferUpload_WriteLast(name, data, dataSize, permanent) ==
    <<BufferCall("beginTrackingBufferState", name, 0, 0, "CopyDest"),
      BufferCall("setPermanentBufferState", name, 0, 0, permanent),
      BufferCall("writeBuffer", name, dataSize, 0, data)>>

\* beginTrackingBufferState, writeBuffer, setPermanentBufferState
BufferUpload(name, data, dataSize, permanent) ==
    <<BufferCall("beginTrackingBufferState", name, 0, 0, "CopyDest"),
      BufferCall("writeBuffer", name, dataSize, 0, data),
      BufferCall("setPermanentBufferState", name, 0, 0, permanent)>>

(***************************************************************************)
(* vertex_buffer                                                           *)
(***************************************************************************)
VertexBuffer_ShadersOk(vs, ps) == ~(~vs \/ ~ps)

VertexBuffer_TextureOk(tex) == tex # "null"

\* The four viewports of Render.  float(n) is kept in half pixels (2 * n),
\* so that the product with 0.5f is exact, as it is in binary floating point.
ToFloat(n) == 2 * n
MulHalf(x) == x \div 2

\* Variant: the framebuffer size is halved as an integer.
VertexBuffer_Viewport_IntegerHalf(size, viewIndex) ==
    LET width  == ToFloat(size[1] \div 2)
        height == ToFloat(size[2] \div 2)
        left   == width * (viewIndex % 2)
        top    == height * (viewIndex \div 2)
    IN  [minX |-> left, maxX |-> left + width, minY |-> top, maxY |-> top + height]

VertexBuffer_Viewport(size, viewIndex) ==
    LET width  == MulHalf(ToFloat(size[1]))
        height == MulHalf(ToFloat(size[2]))
        left   == width * (viewIndex % 2)
        top    == height * (viewIndex \div 2)
    IN  [minX |-> left, maxX |-> left + width, minY |-> top, maxY |-> top + height]

ViewName == <<"view0", "view1", "view2", "view3">>

\* sizeof(Vertex) is a float3 and a float2; g_Vertices has 24 of them,
\* g_Indices 36 uint32_t.
Sizeof_Vertex == 3 * 4 + 2 * 4
Dim_g_Vertices == 24
Sizeof_g_Vertices == Dim_g_Vertices * Sizeof_Vertex

\* g_Indices: six faces of two triangles each, uint32_t
g_Indices ==
    << 0,  1,  2,   0,  3,  1,
       4,  5,  6,   4,  7,  5,
       8,  9, 10,   8, 11,  9,
      12, 13, 14,  12, 15, 13,
      16, 17, 18,  16, 19, 17,
      20, 21, 22,  20, 23, 21>>
Sizeof_g_Indices == Len(g_Indices) * 4

\* sizeof(ConstantBufferEntry): a float4x4 and float padding[16*3]
Sizeof_ConstantBufferEntry == 16 * 4 + (16 * 3) * 4

VertexBuffer_InitLogShaders ==
    <<<<"CreateShader", "main_vs">>, <<"CreateShader", "main_ps">>>>

VertexBuffer_InitLogSetup ==
    <<BufferCall("createBuffer", "ConstantBuffer",
                 Sizeof_ConstantBufferEntry * c_NumViews, 0, "ConstantBuffer"),
      <<"createInputLayout", "m_InputLayout">>,
      <<"createCommandList", "m_CommandList">>,
      <<"open", "m_CommandList">>,
      BufferCall("createBuffer", "VertexBuffer", Sizeof_g_Vertices, 0, "CopyDest")>>

VertexBuffer_UploadVertices ==
    BufferUpload("VertexBuffer", "g_Vertices", Sizeof_g_Vertices, "VertexBuffer")

VertexBuffer_InitLogIndexBuffer ==
    <<BufferCall("createBuffer", "IndexBuffer", Sizeof_g_Indices, 0, "CopyDest")>>

VertexBuffer_UploadIndices ==
    BufferUpload("IndexBuffer", "g_Indices", Sizeof_g_Indices, "IndexBuffer")

VertexBuffer_InitLogLoad_NoClose ==
    <<<<"LoadTextureFromFile", "nvidia-logo.png">>,
      <<"executeCommandList", "m_CommandList">>>>

VertexBuffer_InitLogLoad ==
    <<<<"LoadTextureFromFile", "nvidia-logo.png">>,
      <<"close", "m_CommandList">>,
      <<"executeCommandList", "m_CommandList">>>>

VertexBuffer_InitLogBindings_SameRange(n) ==
    [i \in 1..n |->
        BufferCall("CreateBindingSetAndLayout", "ConstantBuffer",
                   Sizeof_ConstantBufferEntry, 0, ViewName[i])]

\* The n first iterations of the loop over viewIndex: binding set viewIndex
\* binds BufferRange(sizeof(ConstantBufferEntry) * viewIndex, sizeof(ConstantBufferEntry)).
VertexBuffer_InitLogBindings(n) ==
    [i \in 1..n |->
        BufferCall("CreateBindingSetAndLayout", "ConstantBuffer",
                   Sizeof_ConstantBufferEntry, Sizeof_ConstantBufferEntry * (i - 1),
                   ViewName[i])]

\* bindFail is the viewIndex at which CreateBindingSetAndLayout fails,
\* c_NumViews when it never does.
VertexBuffer_Init ==
    /\ example = "vertex_buffer"
    /\ pc = "init"
    /\ \E vs \in BOOLEAN, ps \in BOOLEAN, vtxOk \in BOOLEAN, idxOk \in BOOLEAN,
          texOk \in BOOLEAN, crash \in BOOLEAN, bindFail \in 0..c_NumViews :
         LET tex == IF texOk THEN "valid" ELSE "null" IN
         /\ m_VertexShader' = vs
         /\ m_PixelShader' = ps
         /\ shaderFailed' = (~vs \/ ~ps)
         /\ IF ~VertexBuffer_ShadersOk(vs, ps)
            THEN \* return false before anything else is created
                 /\ initResult' = "false"
                 /\ pc' = MainAfterInit("false")
                 /\ frameLog' = VertexBuffer_InitLogShaders
                 /\ UNCHANGED <<buffers, cmdOpen, texture, loadAttempts, errors, m_BindingSets>>
            ELSE IF ~vtxOk /\ crash
            THEN \* dies in beginTrackingBufferState(m_VertexBuffer)
                 /\ pc' = "crashed"
                 /\ frameLog' = VertexBuffer_InitLogShaders \o VertexBuffer_InitLogSetup
                 /\ buffers' = [b \in {"ConstantBuffer", "VertexBuffer"} |->
                                  IF b = "VertexBuffer" THEN "null" ELSE "ConstantBuffer"]
                 /\ cmdOpen' = TRUE
                 /\ UNCHANGED <<initResult, texture, loadAttempts, errors, m_BindingSets>>
            ELSE IF ~idxOk /\ crash
            THEN \* dies in beginTrackingBufferState(m_IndexBuffer)
                 /\ pc' = "crashed"
                 /\ frameLog' = VertexBuffer_InitLogShaders \o VertexBuffer_InitLogSetup
                                 \o (IF vtxOk THEN VertexBuffer_UploadVertices ELSE <<>>)
                                 \o VertexBuffer_InitLogIndexBuffer
                 /\ buffers' = [b \in {"ConstantBuffer", "VertexBuffer", "IndexBuffer"} |->
                                  IF b = "VertexBuffer" THEN BufferState(vtxOk, "VertexBuffer")
                                  ELSE IF b = "IndexBuffer" THEN "null" ELSE "ConstantBuffer"]
                 /\ cmdOpen' = TRUE
                 /\ UNCHANGED <<initResult, texture, loadAttempts, errors, m_BindingSets>>
            ELSE /\ buffers' = [b \in {"ConstantBuffer", "VertexBuffer", "IndexBuffer"} |->
                                  IF b = "VertexBuffer" THEN BufferState(vtxOk, "VertexBuffer")
                                  ELSE IF b = "IndexBuffer" THEN BufferState(idxOk, "IndexBuffer")
                                  ELSE "ConstantBuffer"]
                 /\ texture' = tex
                 /\ loadAttempts' = loadAttempts + 1
                 /\ cmdOpen' = FALSE
                 /\ LET upload == VertexBuffer_InitLogShaders \o VertexBuffer_InitLogSetup
                                   \o (IF vtxOk THEN VertexBuffer_UploadVertices ELSE <<>>)
                                   \o VertexBuffer_InitLogIndexBuffer
                                   \o (IF idxOk THEN VertexBuffer_UploadIndices ELSE <<>>)
                                   \o VertexBuffer_InitLogLoad
                    IN  IF ~VertexBuffer_TextureOk(tex)
                        THEN /\ errors' = Append(errors, "Couldn't load the texture")
                             /\ initResult' = "false"
                             /\ pc' = MainAfterInit("false")
                             /\ frameLog' = upload
                             /\ UNCHANGED m_BindingSets
                        ELSE IF bindFail < c_NumViews
                        THEN /\ errors' = Append(errors, "Couldn't create the binding set or layout")
                             /\ initResult' = "false"
                             /\ pc' = MainAfterInit("false")
                             /\ frameLog' = upload \o VertexBuffer_InitLogBindings(bindFail + 1)
                             /\ m_BindingSets' = bindFail
                        ELSE /\ initResult' = "true"
                             /\ pc' = MainAfterInit("true")
                             /\ frameLog' = upload \o VertexBuffer_InitLogBindings(c_NumViews)
                             /\ m_BindingSets' = c_NumViews
                             /\ UNCHANGED errors
    /\ calls' = Called("Init")
    /\ lastCall' = "Init"
    /\ mainLog' = Append(mainLog, "Init")
    /\ UNCHANGED <<example, exitCode, devState, exampleState, registered, m_Pipeline,
                   pipelineCreates, m_RenderTargets, rtAllocs, m_GBufferPass,
                   gbufferCreates, m_Rotation, sceneGraph, fbinfo, viewports>>

VertexBuffer_Animate ==
    /\ example = "vertex_buffer"
    /\ DeviceManager_Dispatches
    /\ calls["Animate"] < MaxAnimate
    /\ m_Rotation' = m_Rotation + 1
    /\ calls' = Called("Animate")
    /\ lastCall' = "Animate"
    /\ UNCHANGED <<example, pc, exitCode, mainLog, devState, exampleState, registered,
                   initResult, shaderFailed, m_VertexShader, m_PixelShader, m_BindingSets,
                   texture, loadAttempts, errors, buffers, cmdOpen, m_Pipeline,
                   pipelineCreates, m_RenderTargets, rtAllocs, m_GBufferPass,
                   gbufferCreates, sceneGraph, fbinfo, viewports, frameLog>>

\* Variant: the pipeline is kept.
VertexBuffer_BackBufferResizing_KeepsPipeline ==
    /\ example = "vertex_buffer"
    /\ DeviceManager_Dispatches
    /\ calls["BackBufferResizing"] < MaxResizes
    /\ calls' = Called("BackBufferResizing")
    /\ lastCall' = "BackBufferResizing"
    /\ UNCHANGED <<example, pc, exitCode, mainLog, devState, exampleState, registered,
                   initResult, shaderFailed, m_VertexShader, m_PixelShader, m_BindingSets,
                   texture, loadAttempts, errors, buffers, cmdOpen, m_Pipeline,
                   pipelineCreates, m_RenderTargets, rtAllocs, m_GBufferPass,
                   gbufferCreates, m_Rotation, sceneGraph, fbinfo, viewports, frameLog>>

VertexBuffer_BackBufferResizing ==
    /\ example = "vertex_buffer"
    /\ DeviceManager_Dispatches
    /\ calls["BackBufferResizing"] < MaxResizes
    /\ m_Pipeline' = FALSE
    /\ calls' = Called("BackBufferResizing")
    /\ lastCall' = "BackBufferResizing"
    /\ UNCHANGED <<example, pc, exitCode, mainLog, devState, exampleState, registered,
                   initResult, shaderFailed, m_VertexShader, m_PixelShader, m_BindingSets,
                   texture, loadAttempts, errors, buffers, cmdOpen, pipelineCreates,
                   m_RenderTargets, rtAllocs, m_GBufferPass, gbufferCreates, m_Rotation,
                   sceneGraph, fbinfo, viewports, frameLog>>

\* setGraphicsState is recorded with the index of the binding set and the
\* viewport of its state, drawIndexed with args.vertexCount.
VertexBuffer_SetGraphicsState(bindingSet, viewport) ==
    <<"setGraphicsState", "m_BindingSets", bindingSet,
      viewport.minX, viewport.maxX, viewport.minY, viewport.maxY>>

VertexBuffer_DrawIndexed == <<"drawIndexed", "m_IndexBuffer", Len(g_Indices)>>

VertexBuffer_RenderLogDraws_FirstBindingSet(n, size) ==
    [k \in 1..(2 * n) |->
        IF k % 2 = 1
        THEN VertexBuffer_SetGraphicsState(0, VertexBuffer_Viewport(size, (k - 1) \div 2))
        ELSE VertexBuffer_DrawIndexed]

\* The loop over viewIndex = (k - 1) \div 2: setGraphicsState, then drawIndexed.
VertexBuffer_RenderLogDraws(n, size) ==
    [k \in 1..(2 * n) |->
        IF k % 2 = 1
        THEN VertexBuffer_SetGraphicsState((k - 1) \div 2,
                                           VertexBuffer_Viewport(size, (k - 1) \div 2))
        ELSE VertexBuffer_DrawIndexed]

\* if (!m_Pipeline)
VertexBuffer_NeedPipeline(pipeline) == ~pipeline

VertexBuffer_RenderLog(create, size) ==
    (IF create THEN <<<<"createGraphicsPipeline", "m_Pipeline">>>> ELSE <<>>)
    \o <<<<"open", "m_CommandList">>,
          <<"ClearColorAttachment", "framebuffer">>,
          BufferCall("writeBuffer", "ConstantBuffer",
                     Sizeof_ConstantBufferEntry * c_NumViews, 0, "modelConstants")>>
    \o VertexBuffer_RenderLogDraws(c_NumViews, size)
    \o <<<<"close", "m_CommandList">>,
          <<"executeCommandList", "m_CommandList">>>>

VertexBuffer_Render ==
    /\ example = "vertex_buffer"
    /\ DeviceManager_Dispatches
    /\ calls["Render"] < MaxFrames
    /\ \E size \in FramebufferSizes :
         /\ fbinfo' = size
         /\ viewports' = [i \in 1..c_NumViews |-> VertexBuffer_Viewport(size, i - 1)]
         /\ frameLog' = VertexBuffer_RenderLog(VertexBuffer_NeedPipeline(m_Pipeline), size)
    /\ pipelineCreates' = pipelineCreates
                            + (IF VertexBuffer_NeedPipeline(m_Pipeline) THEN 1 ELSE 0)
    /\ m_Pipeline' = TRUE
    /\ calls' = Called("Render")
    /\ lastCall' = "Render"
    /\ UNCHANGED <<example, pc, exitCode, mainLog, devState, exampleState, registered,
                   initResult, shaderFailed, m_VertexShader, m_PixelShader, m_BindingSets,
                   texture, loadAttempts, errors, buffers, cmdOpen, m_RenderTargets,
                   rtAllocs, m_GBufferPass, gbufferCreates, m_Rotation, sceneGraph>>

(***************************************************************************)
(* The engine's scene graph, as far as SimpleScene::Init uses it.  A node  *)
(* is [parent, leaf, name]; parent 0 means no parent.                      *)
(***************************************************************************)
SceneGraph_SetRootNode(g) ==
    [g EXCEPT !.nodes = Append(g.nodes, [parent |-> 0, leaf |-> "none", name |-> ""]),
              !.root = Len(g.nodes) + 1,
              !.refreshed = FALSE]

SceneGraphNode_SetLeaf(g, n, leaf) ==
    [g EXCEPT !.nodes[n].leaf = leaf, !.refreshed = FALSE]

SceneGraphNode_SetName(g, n, name) ==
    [g EXCEPT !.nodes[n].name = name, !.refreshed = FALSE]

SceneGraph_AttachLeafNode(g, parent, leaf) ==
    [g EXCEPT !.nodes = Append(g.nodes, [parent |-> parent, leaf |-> leaf, name |-> ""]),
              !.refreshed = FALSE]

SceneGraph_Refresh(g) == [g EXCEPT !.refreshed = TRUE]

(***************************************************************************)
(* deferred_shading: SimpleScene                                           *)
(***************************************************************************)
\* Variant: the light is set as the leaf of the root node.
SimpleScene_BuildSceneGraph_LightOnRoot ==
    LET g0 == EmptySceneGraph
        g1 == SceneGraph_SetRootNode(g0)
        node == g1.root
        g2 == SceneGraphNode_SetLeaf(g1, node, "MeshInstance")
        g3 == SceneGraphNode_SetName(g2, node, "CubeNode")
        g4 == SceneGraphNode_SetLeaf(g3, node, "DirectionalLight")
        g5 == SceneGraphNode_SetName(g4, node, "Sun")
    IN  SceneGraph_Refresh(g5)

\* node = the root node; the light's node is the one AttachLeafNode appends.
SimpleScene_BuildSceneGraph ==
    LET g0 == EmptySceneGraph
        g1 == SceneGraph_SetRootNode(g0)
        node == g1.root
        g2 == SceneGraphNode_SetLeaf(g1, node, "MeshInstance")
        g3 == SceneGraphNode_SetName(g2, node, "CubeNode")
        g4 == SceneGraph_AttachLeafNode(g3, node, "DirectionalLight")
        g5 == SceneGraphNode_SetName(g4, Len(g4.nodes), "Sun")
    IN  SceneGraph_Refresh(g5)

\* Variant: Refresh is called before the light is set up.
SimpleScene_SceneGraphLog_EarlyRefresh ==
    <<<<"SetRootNode", "node">>,
      <<"SetLeaf", "m_MeshInstance">>,
      <<"SetName", "CubeNode">>,
      <<"AttachLeafNode", "sunLight">>,
      <<"Refresh", "m_SceneGraph">>,
      <<"SetDirection", "sunLight">>,
      <<"SetName", "Sun">>,
      <<"PrintSceneGraph", "m_SceneGraph">>>>

SimpleScene_SceneGraphLog ==
    <<<<"SetRootNode", "node">>,
      <<"SetLeaf", "m_MeshInstance">>,
      <<"SetName", "CubeNode">>,
      <<"AttachLeafNode", "sunLight">>,
      <<"SetDirection", "sunLight">>,
      <<"SetName", "Sun">>,
      <<"Refresh", "m_SceneGraph">>,
      <<"PrintSceneGraph", "m_SceneGraph">>>>

\* CreateGeometryBuffer: the upload is recorded only when data is given
\* (data = "" stands for nullptr).
SimpleScene_CreateGeometryBuffer(name, data, dataSize, isVertexBuffer, ok) ==
    <<BufferCall("createBuffer", name, dataSize, 0, "CopyDest")>>
    \o (IF data # "" /\ ok
        THEN BufferUpload(name, data, dataSize,
                          IF isVertexBuffer THEN "VertexBuffer" ELSE "IndexBuffer")
        ELSE <<>>)

SimpleScene_VertexBufferRanges_TangentAtNormal(sz) ==
    LET position == [byteOffset |-> 0, byteSize |-> sz[1]]
        texCoord1 == [byteOffset |-> sz[1], byteSize |-> sz[2]]
        normal == [byteOffset |-> sz[1] + sz[2], byteSize |-> sz[3]]
        tangent == [byteOffset |-> sz[1] + sz[2], byteSize |-> sz[4]]
    IN  [ranges |-> <<position, texCoord1, normal, tangent>>,
         vertexBufferSize |-> sz[1] + sz[2] + sz[3] + sz[4]]

\* The vertex buffer ranges of Position, TexCoord1, Normal and Tangent, set
\* while vertexBufferSize is summed up; sz is the sizeof of g_Positions,
\* g_TexCoords, g_Normals and g_Tangents.
SimpleScene_VertexBufferRanges(sz) ==
    LET size0 == 0
        position == [byteOffset |-> size0, byteSize |-> sz[1]]
        size1 == size0 + sz[1]
        texCoord1 == [byteOffset |-> size1, byteSize |-> sz[2]]
        size2 == size1 + sz[2]
        normal == [byteOffset |-> size2, byteSize |-> sz[3]]
        size3 == size2 + sz[3]
        tangent == [byteOffset |-> size3, byteSize |-> sz[4]]
        size4 == size3 + sz[4]
    IN  [ranges |-> <<position, texCoord1, normal, tangent>>, vertexBufferSize |-> size4]

VertexAttribute == <<"Position", "TexCoord1", "Normal", "Tangent">>
VertexData == <<"g_Positions", "g_TexCoords", "g_Normals", "g_Tangents">>

SimpleScene_RangesLog(sz) ==
    LET r == SimpleScene_VertexBufferRanges(sz).ranges
    IN  [i \in 1..4 |-> BufferCall("setVertexBufferRange", VertexAttribute[i],
                                    r[i].byteSize, r[i].byteOffset, "")]

SimpleScene_VertexUpload(sz) ==
    LET r == SimpleScene_VertexBufferRanges(sz).ranges
    IN  <<BufferCall("beginTrackingBufferState", "VertexBuffer", 0, 0, "CopyDest")>>
        \o [i \in 1..4 |-> BufferCall("writeBuffer", "VertexBuffer", sz[i],
                                       r[i].byteOffset, VertexData[i])]
        \o <<BufferCall("setPermanentBufferState", "VertexBuffer", 0, 0, "VertexBuffer")>>

SimpleScene_CreateMaterialConstantBuffer_NoWrite(size) ==
    <<BufferCall("createBuffer", "CubeMaterial", size, 0, "ConstantBuffer")>>

\* CreateMaterialConstantBuffer: createBuffer, FillConstantBuffer, writeBuffer
SimpleScene_CreateMaterialConstantBuffer(size) ==
    <<BufferCall("createBuffer", "CubeMaterial", size, 0, "ConstantBuffer"),
      BufferCall("writeBuffer", "CubeMaterial", size, 0, "constants")>>

\* Variant: the texture handle is not tested.
SimpleScene_TextureOk_Unchecked(tex) == TRUE

SimpleScene_TextureOk(tex) == tex # "null"

DataSizes == (1..MaxBytes) \X (1..MaxBytes) \X (1..MaxBytes) \X (1..MaxBytes)

SimpleScene_GeometryBuffers == {"IndexBuffer", "VertexBuffer", "VertexBufferTransform"}

DeferredShading_InitLog ==
    <<<<"ShaderFactory", "m_ShaderFactory">>,
      <<"CommonRenderPasses", "m_CommonPasses">>,
      <<"BindingCache", "m_BindingCache">>,
      <<"DeferredLightingPass", "m_DeferredLightingPass">>,
      <<"DeferredLightingPass::Init", "m_DeferredLightingPass">>,
      <<"TextureCache", "m_TextureCache">>,
      <<"createCommandList", "m_CommandList">>>>

\* DeferredShading::Init with SimpleScene::Init, which it returns.  shOk says
\* whether the shader factory gave the lighting pass its shaders; sz is the
\* sizeof of the four vertex data arrays, idxSize that of g_Indices and
\* otherSize that of InstanceData and of MaterialConstants.
DeferredShading_Init ==
    /\ example = "deferred_shading"
    /\ pc = "init"
    /\ \E shOk \in BOOLEAN, idxOk \in BOOLEAN, vtxOk \in BOOLEAN, instOk \in BOOLEAN,
          texOk \in BOOLEAN, crash \in BOOLEAN,
          sz \in DataSizes, idxSize \in 1..MaxBytes, otherSize \in 1..MaxBytes :
         LET tex == IF texOk THEN "valid" ELSE "null"
             logIdx == DeferredShading_InitLog \o <<<<"open", "m_CommandList">>>>
                        \o SimpleScene_CreateGeometryBuffer("IndexBuffer", "g_Indices",
                                                            idxSize, FALSE, idxOk)
             logVtx == logIdx \o SimpleScene_RangesLog(sz)
                        \o SimpleScene_CreateGeometryBuffer("VertexBuffer", "",
                              SimpleScene_VertexBufferRanges(sz).vertexBufferSize, TRUE, vtxOk)
             logInst == logVtx \o (IF vtxOk THEN SimpleScene_VertexUpload(sz) ELSE <<>>)
                         \o SimpleScene_CreateGeometryBuffer("VertexBufferTransform", "instance",
                                                             otherSize, TRUE, instOk)
             logAll == logInst \o <<<<"LoadTextureFromFile", "nvidia-logo.png">>>>
                        \o SimpleScene_CreateMaterialConstantBuffer(otherSize)
                        \o <<<<"close", "m_CommandList">>,
                              <<"executeCommandList", "m_CommandList">>>>
         IN
         /\ shaderFailed' = ~shOk
         /\ IF ~idxOk /\ crash
            THEN \* dies in CreateGeometryBuffer's beginTrackingBufferState(bufHandle)
                 /\ pc' = "crashed"
                 /\ frameLog' = logIdx
                 /\ buffers' = [b \in {"IndexBuffer"} |-> "null"]
                 /\ cmdOpen' = TRUE
                 /\ UNCHANGED <<initResult, texture, loadAttempts, errors, sceneGraph>>
            ELSE IF ~vtxOk /\ crash
            THEN \* dies in beginTrackingBufferState(m_Buffers->vertexBuffer)
                 /\ pc' = "crashed"
                 /\ frameLog' = logVtx
                 /\ buffers' = [b \in {"IndexBuffer", "VertexBuffer"} |->
                                  IF b = "IndexBuffer" THEN BufferState(idxOk, "IndexBuffer")
                                  ELSE "null"]
                 /\ cmdOpen' = TRUE
                 /\ UNCHANGED <<initResult, texture, loadAttempts, errors, sceneGraph>>
            ELSE IF ~instOk /\ crash
            THEN \* dies in CreateGeometryBuffer's beginTrackingBufferState(bufHandle)
                 /\ pc' = "crashed"
                 /\ frameLog' = logInst
                 /\ buffers' = [b \in SimpleScene_GeometryBuffers |->
                                  IF b = "IndexBuffer" THEN BufferState(idxOk, "IndexBuffer")
                                  ELSE IF b = "VertexBuffer" THEN BufferState(vtxOk, "VertexBuffer")
                                  ELSE "null"]
                 /\ cmdOpen' = TRUE
                 /\ UNCHANGED <<initResult, texture, loadAttempts, errors, sceneGraph>>
            ELSE /\ buffers' = [b \in SimpleScene_GeometryBuffers \cup {"CubeMaterial"} |->
                                  IF b = "IndexBuffer" THEN BufferState(idxOk, "IndexBuffer")
                                  ELSE IF b = "VertexBuffer" THEN BufferState(vtxOk, "VertexBuffer")
                                  ELSE IF b = "VertexBufferTransform" THEN BufferState(instOk, "VertexBuffer")
                                  ELSE "ConstantBuffer"]
                 /\ texture' = tex
                 /\ loadAttempts' = loadAttempts + 1
                 /\ cmdOpen' = FALSE
                 /\ IF ~SimpleScene_TextureOk(tex)
                    THEN /\ errors' = Append(errors, "Couldn't load the texture")
                         /\ initResult' = "false"
                         /\ pc' = MainAfterInit("false")
                         /\ frameLog' = logAll
                         /\ UNCHANGED sceneGraph
                    ELSE /\ sceneGraph' = SimpleScene_BuildSceneGraph
                         /\ initResult' = "true"
                         /\ pc' = MainAfterInit("true")
                         /\ frameLog' = logAll \o SimpleScene_SceneGraphLog
                         /\ UNCHANGED errors
    /\ calls' = Called("Init")
    /\ lastCall' = "Init"
    /\ mainLog' = Append(mainLog, "Init")
    /\ UNCHANGED <<example, exitCode, devState, exampleState, registered, m_VertexShader,
                   m_PixelShader, m_BindingSets, m_Pipeline, pipelineCreates,
                   m_RenderTargets, rtAllocs, m_GBufferPass, gbufferCreates, m_Rotation,
                   fbinfo, viewports>>

(***************************************************************************)
(* deferred_shading: DeferredShading                                       *)
(***************************************************************************)
DeferredShading_Animate ==
    /\ example = "deferred_shading"
    /\ DeviceManager_Dispatches
    /\ calls["Animate"] < MaxAnimate
    /\ m_Rotation' = m_Rotation + 1
    /\ calls' = Called("Animate")
    /\ lastCall' = "Animate"
    /\ UNCHANGED <<example, pc, exitCode, mainLog, devState, exampleState, registered,
                   initResult, shaderFailed, m_VertexShader, m_PixelShader, m_BindingSets,
                   texture, loadAttempts, errors, buffers, cmdOpen, m_Pipeline,
                   pipelineCreates, m_RenderTargets, rtAllocs, m_GBufferPass,
                   gbufferCreates, sceneGraph, fbinfo, viewports, frameLog>>

\* The body of BackBufferResizing is empty.
DeferredShading_BackBufferResizing ==
    /\ example = "deferred_shading"
    /\ DeviceManager_Dispatches
    /\ calls["BackBufferResizing"] < MaxResizes
    /\ calls' = Called("BackBufferResizing")
    /\ lastCall' = "BackBufferResizing"
    /\ UNCHANGED <<example, pc, exitCode, mainLog, devState, exampleState, registered,
                   initResult, shaderFailed, m_VertexShader, m_PixelShader, m_BindingSets,
                   texture, loadAttempts, errors, buffers, cmdOpen, m_Pipeline,
                   pipelineCreates, m_RenderTargets, rtAllocs, m_GBufferPass,
                   gbufferCreates, m_Rotation, sceneGraph, fbinfo, viewports, frameLog>>

\* Variant: width and height are exchanged.
RenderTargets_Init_Transposed(size) == [valid |-> TRUE, size |-> <<size[2], size[1]>>]

\* RenderTargets::Init: the G-buffer textures and ShadedColor, size.x by size.y.
RenderTargets_Init(size) == [valid |-> TRUE, size |-> size]

\* Variant: the sizes are not compared.
DeferredShading_NeedRenderTargets_NullOnly(rt, size) == ~rt.valid

\* !m_RenderTargets || any(m_RenderTargets->GetSize() != size)
DeferredShading_NeedRenderTargets(rt, size) ==
    ~rt.valid \/ rt.size[1] # size[1] \/ rt.size[2] # size[2]

\* Variant: the lighting pass is recorded before the geometry pass.
DeferredShading_RenderLogPasses_LightingFirst ==
    <<<<"open", "m_CommandList">>,
      <<"Clear", "m_RenderTargets">>,
      <<"DeferredLightingPass::Render", "ShadedColor">>,
      <<"RenderView", "m_GBufferPass">>,
      <<"BlitTexture", "framebuffer">>,
      <<"close", "m_CommandList">>,
      <<"executeCommandList", "m_CommandList">>>>

DeferredShading_RenderLogPasses ==
    <<<<"open", "m_CommandList">>,
      <<"Clear", "m_RenderTargets">>,
      <<"RenderView", "m_GBufferPass">>,
      <<"DeferredLightingPass::Render", "ShadedColor">>,
      <<"BlitTexture", "framebuffer">>,
      <<"close", "m_CommandList">>,
      <<"executeCommandList", "m_CommandList">>>>

DeferredShading_RenderLog_KeepsBindingCache(realloc, createPass) ==
    (IF realloc
     THEN <<<<"release", "m_RenderTargets">>,
            <<"ResetBindingCache", "m_DeferredLightingPass">>,
            <<"reset", "m_GBufferPass">>,
            <<"RenderTargets::Init", "m_RenderTargets">>>>
     ELSE <<>>)
    \o <<<<"SetupView", "m_View">>>>
    \o (IF createPass THEN <<<<"GBufferFillPass::Init", "m_GBufferPass">>>> ELSE <<>>)
    \o DeferredShading_RenderLogPasses

DeferredShading_RenderLog(realloc, createPass) ==
    (IF realloc
     THEN <<<<"release", "m_RenderTargets">>,
            <<"BindingCache::Clear", "m_BindingCache">>,
            <<"ResetBindingCache", "m_DeferredLightingPass">>,
            <<"reset", "m_GBufferPass">>,
            <<"RenderTargets::Init", "m_RenderTargets">>>>
     ELSE <<>>)
    \o <<<<"SetupView", "m_View">>>>
    \o (IF createPass THEN <<<<"GBufferFillPass::Init", "m_GBufferPass">>>> ELSE <<>>)
    \o DeferredShading_RenderLogPasses

DeferredShading_Render ==
    /\ example = "deferred_shading"
    /\ DeviceManager_Dispatches
    /\ calls["Render"] < MaxFrames
    /\ \E size \in FramebufferSizes :
         LET realloc == DeferredShading_NeedRenderTargets(m_RenderTargets, size)
             passAfterReset == IF realloc THEN FALSE ELSE m_GBufferPass
             createPass == ~passAfterReset
         IN
         /\ fbinfo' = size
         /\ m_RenderTargets' = IF realloc THEN RenderTargets_Init(size)
                                          ELSE m_RenderTargets
         /\ rtAllocs' = rtAllocs + (IF realloc THEN 1 ELSE 0)
         /\ gbufferCreates' = gbufferCreates + (IF createPass THEN 1 ELSE 0)
         /\ frameLog' = DeferredShading_RenderLog(realloc, createPass)
    /\ m_GBufferPass' = TRUE
    /\ calls' = Called("Render")
    /\ lastCall' = "Render"
    /\ UNCHANGED <<example, pc, exitCode, mainLog, devState, exampleState, registered,
                   initResult, shaderFailed, m_VertexShader, m_PixelShader, m_BindingSets,
                   texture, loadAttempts, errors, buffers, cmdOpen, m_Pipeline,
                   pipelineCreates, m_Rotation, sceneGraph, viewports>>

(***************************************************************************)
(* main(): render loop and teardown.                                       *)
(***************************************************************************)
Main_AddRenderPassToBack ==
    /\ pc = "add"
    /\ pc' = "loop"
    /\ registered' = TRUE
    /\ mainLog' = Append(Append(mainLog, "AddRenderPassToBack"), "RunMessageLoop")
    /\ UNCHANGED <<example, exitCode, devState, exampleState, errors>>
    /\ UNCHANGED exampleVars

Main_MessageLoopReturns ==
    /\ pc = "loop"
    /\ pc' = "remove"
    /\ UNCHANGED <<example, exitCode, mainLog, devState, exampleState, registered, errors>>
    /\ UNCHANGED exampleVars

Main_RemoveRenderPass ==
    /\ pc = "remove"
    /\ pc' = "destroy"
    /\ registered' = FALSE
    /\ mainLog' = Append(mainLog, "RemoveRenderPass")
    /\ UNCHANGED <<example, exitCode, devState, exampleState, errors>>
    /\ UNCHANGED exampleVars

Main_DestroyExample ==
    /\ pc = "destroy"
    /\ pc' = "shutdown"
    /\ exampleState' = "destroyed"
    /\ mainLog' = Append(mainLog, "destroy")
    /\ UNCHANGED <<example, exitCode, devState, registered, errors>>
    /\ UNCHANGED exampleVars

Main_Shutdown ==
    /\ pc = "shutdown"
    /\ pc' = "delete"
    /\ devState' = "shutdown"
    /\ mainLog' = Append(mainLog, "Shutdown")
    /\ UNCHANGED <<example, exitCode, exampleState, registered, errors>>
    /\ UNCHANGED exampleVars

\* Variant: main returns 1 when Init failed.
Main_DeleteAndReturn_InitFailureCode ==
    /\ pc = "delete"
    /\ pc' = "done"
    /\ devState' = "deleted"
    /\ exitCode' = (IF initResult = "true" THEN 0 ELSE 1)
    /\ mainLog' = Append(mainLog, "delete")
    /\ UNCHANGED <<example, exampleState, registered, errors>>
    /\ UNCHANGED exampleVars

Main_DeleteAndReturn ==
    /\ pc = "delete"
    /\ pc' = "done"
    /\ devState' = "deleted"
    /\ exitCode' = 0
    /\ mainLog' = Append(mainLog, "delete")
    /\ UNCHANGED <<example, exampleState, registered, errors>>
    /\ UNCHANGED exampleVars

Next ==
    \/ Main_CreateWindowDeviceAndSwapChain
    \/ Main_ConstructExample
    \/ BasicTriangle_Init
    \/ BasicTriangle_BackBufferResizing
    \/ BasicTriangle_Animate
    \/ BasicTriangle_Render
    \/ VertexBuffer_Init
    \/ VertexBuffer_Animate
    \/ VertexBuffer_BackBufferResizing
    \/ VertexBuffer_Render
    \/ DeferredShading_Init
    \/ DeferredShading_Animate
    \/ DeferredShading_BackBufferResizing
    \/ DeferredShading_Render
    \/ Main_AddRenderPassToBack
    \/ Main_MessageLoopReturns
    \/ Main_RemoveRenderPass
    \/ Main_DestroyExample
    \/ Main_Shutdown
    \/ Main_DeleteAndReturn

Spec == Init /\ [][Next]_vars
(***************************************************************************)
(* Properties                                                              *)
(***************************************************************************)
HandlerCalls == calls["Animate"] + calls["BackBufferResizing"] + calls["Render"]
InitReturned == initResult # "none"

\* C1: in every example, when the shader factory returned a null shader
\* during Init, Init returns false and no graphics pipeline and no G-buffer
\* pass is ever created.
C1_ShaderFailureAbortsInit ==
    (shaderFailed /\ InitReturned) =>
        (initResult = "false" /\ pipelineCreates = 0 /\ gbufferCreates = 0)

\* C2: in vertex_buffer and deferred_shading, when the loaded texture's
\* handle is null, Init has logged "Couldn't load the texture" once, has
\* returned false, and the texture was loaded exactly once.
C2_TextureFailure ==
    (example \in {"vertex_buffer", "deferred_shading"} /\ texture = "null") =>
        /\ initResult = "false"
        /\ Count("Couldn't load the texture", errors) = 1
        /\ loadAttempts = 1
        /\ Count(<<"LoadTextureFromFile", "nvidia-logo.png">>, frameLog) = 1

C2_Witness ==
    /\ example = "deferred_shading"
    /\ texture = "null"
    /\ initResult = "false"
    /\ pc = "done"

\* C3: in deferred_shading, a Render whose framebuffer size differs from the
\* size of the current render targets (or that finds none) makes exactly one
\* RenderTargets::Init, with the new size and before the command list is
\* opened; a Render whose framebuffer size equals the render-target size
\* makes none.
RenderTargetsInit == <<"RenderTargets::Init", "m_RenderTargets">>
CommandListOpen == <<"open", "m_CommandList">>

C3_RenderStep ==
    (example = "deferred_shading" /\ calls'["Render"] = calls["Render"] + 1) =>
        LET changed == ~m_RenderTargets.valid \/ m_RenderTargets.size # fbinfo'
        IN  /\ rtAllocs' = rtAllocs + (IF changed THEN 1 ELSE 0)
            /\ Count(RenderTargetsInit, frameLog') = (IF changed THEN 1 ELSE 0)
            /\ changed => /\ m_RenderTargets'.valid
                          /\ m_RenderTargets'.size = fbinfo'
                          /\ Before(RenderTargetsInit, CommandListOpen, frameLog')
            /\ ~changed => m_RenderTargets' = m_RenderTargets

C3_ResizeReallocatesOnce == [][C3_RenderStep]_vars

C3_Witness ==
    /\ example = "deferred_shading"
    /\ calls["Render"] = 3
    /\ rtAllocs = 2
    /\ Count(RenderTargetsInit, frameLog) = 1

\* C4: in vertex_buffer, the four viewports of a Render lie inside the
\* framebuffer, each is half its width by half its height, no point of the
\* framebuffer is in two of them and every point is in one: a 2x2 grid.
\* Points are the half-pixel cells of the framebuffer.
InViewport(v, x, y) == v.minX <= x /\ x < v.maxX /\ v.minY <= y /\ y < v.maxY

C4_ViewportsPartition ==
    (example = "vertex_buffer" /\ calls["Render"] > 0) =>
        LET W == ToFloat(fbinfo[1])
            H == ToFloat(fbinfo[2])
        IN  /\ Len(viewports) = 4
            /\ \A i \in 1..4 :
                 /\ 0 <= viewports[i].minX /\ viewports[i].maxX <= W
                 /\ 0 <= viewports[i].minY /\ viewports[i].maxY <= H
                 /\ 2 * (viewports[i].maxX - viewports[i].minX) = W
                 /\ 2 * (viewports[i].maxY - viewports[i].minY) = H
            /\ \A x \in 0..(W - 1), y \in 0..(H - 1) :
                 Cardinality({i \in 1..4 : InViewport(viewports[i], x, y)}) = 1
            /\ viewports[1].minX = viewports[3].minX /\ viewports[2].minX = viewports[4].minX
            /\ viewports[1].minY = viewports[2].minY /\ viewports[3].minY = viewports[4].minY
            /\ viewports[1].minX < viewports[2].minX /\ viewports[1].minY < viewports[3].minY

C4_Witness ==
    /\ example = "vertex_buffer"
    /\ calls["Render"] > 0
    /\ fbinfo[1] % 2 = 1
    /\ fbinfo[2] % 2 = 1
    /\ fbinfo[1] > 1

\* C5: after SimpleScene::Init returned true, the scene graph has one root
\* node, which carries the one mesh-instance leaf, one light leaf, whose node
\* hangs under the root, and nothing else.
NodesWith(g, leaf) == {n \in 1..Len(g.nodes) : g.nodes[n].leaf = leaf}

C5_SceneShape ==
    (example = "deferred_shading" /\ initResult = "true") =>
        LET g == sceneGraph
            roots == {n \in 1..Len(g.nodes) : g.nodes[n].parent = 0}
        IN  /\ roots = {g.root}
            /\ Cardinality(NodesWith(g, "MeshInstance")) = 1
            /\ Cardinality(NodesWith(g, "DirectionalLight")) = 1
            /\ \A n \in NodesWith(g, "DirectionalLight") : g.nodes[n].parent = g.root
            /\ \A n \in 1..Len(g.nodes) : g.nodes[n].leaf \in {"MeshInstance", "DirectionalLight"}
            /\ Len(g.nodes) = 2

C5_Witness ==
    /\ example = "deferred_shading"
    /\ initResult = "true"
    /\ sceneGraph.refreshed
    /\ pc = "loop"

\* C6: when main has returned, the exit code is 1 exactly if
\* CreateWindowDeviceAndSwapChain failed, and then no example was
\* constructed, Init was not called and the message loop did not run; on
\* every other return, also after Init returned false, the exit code is 0.
C6_ExitCode ==
    /\ pc = "done" =>
         /\ exitCode \in {0, 1}
         /\ exitCode = 1 <=> devState = "failed"
         /\ exitCode = 1 =>
              /\ exampleState = "none"
              /\ calls["Init"] = 0
              /\ ~InLog("RunMessageLoop", mainLog)
              /\ HandlerCalls = 0
    /\ pc # "done" => exitCode = -1

C6_Witness ==
    /\ pc = "done"
    /\ initResult = "false"
    /\ exitCode = 0

\* C7 as stated: Init is called exactly once in every process; Animate,
\* BackBufferResizing and Render are called only after Init returned true;
\* after Init returned false the example is never added and the message
\* loop never runs.
C7_InitExactlyOnce ==
    /\ pc = "done" => calls["Init"] = 1
    /\ HandlerCalls > 0 => initResult = "true"
    /\ initResult = "false" =>
         (~registered /\ ~InLog("AddRenderPassToBack", mainLog)
                      /\ ~InLog("RunMessageLoop", mainLog))

\* C7 amended: Init is called at most once, exactly once in a process whose
\* device was created and never in one whose device creation failed;
\* Animate, BackBufferResizing and Render are called only after Init
\* returned true, between AddRenderPassToBack and RemoveRenderPass; after
\* Init returned false the example is never added and the message loop
\* never runs.
C7_State ==
    /\ calls["Init"] <= 1
    /\ devState = "failed" => calls["Init"] = 0
    /\ (pc = "done" /\ devState # "failed") => calls["Init"] = 1
    /\ HandlerCalls > 0 =>
         (initResult = "true" /\ InLog("AddRenderPassToBack", mainLog))
    /\ initResult = "false" =>
         /\ ~registered
         /\ ~InLog("AddRenderPassToBack", mainLog)
         /\ ~InLog("RunMessageLoop", mainLog)
         /\ HandlerCalls = 0

C7_HandlerStep ==
    HandlerCalls' > HandlerCalls =>
        /\ initResult = "true"
        /\ registered /\ registered'
        /\ InLog("AddRenderPassToBack", mainLog)
        /\ ~InLog("RemoveRenderPass", mainLog')

C7_InitOnceWhenDeviceCreated == []C7_State /\ [][C7_HandlerStep]_vars

C7_Witness ==
    /\ pc = "done"
    /\ initResult = "true"
    /\ calls["Init"] = 1
    /\ calls["Animate"] > 0
    /\ calls["BackBufferResizing"] > 0
    /\ calls["Render"] > 0

\* C8: when createBuffer returned a null handle for a geometry buffer, Init
\* returns false.
C8_BufferFailureAbortsInit ==
    ((\E b \in DOMAIN buffers : buffers[b] = "null") /\ InitReturned) =>
        initResult = "false"

\* C9: whenever main has returned, the example is out of the render-pass
\* list, the example object is gone, and the device manager was shut down
\* and then deleted, after the example was destroyed.
C9_TeardownOnEveryPath ==
    pc = "done" =>
        /\ ~registered
        /\ exampleState # "alive"
        /\ devState = "deleted"
        /\ Before("Shutdown", "delete", mainLog)
        /\ InLog("AddRenderPassToBack", mainLog) => Before("RemoveRenderPass", "destroy", mainLog)
        /\ InLog("construct", mainLog) => Before("destroy", "Shutdown", mainLog)

\* C10: every deferred_shading Render records, in this order and each once:
\* command list open, render-target clear, the G-buffer pass (RenderView),
\* the deferred lighting pass writing ShadedColor, the blit to the
\* framebuffer, command list close, executeCommandList.
C10_Steps ==
    <<<<"open", "m_CommandList">>,
      <<"Clear", "m_RenderTargets">>,
      <<"RenderView", "m_GBufferPass">>,
      <<"DeferredLightingPass::Render", "ShadedColor">>,
      <<"BlitTexture", "framebuffer">>,
      <<"close", "m_CommandList">>,
      <<"executeCommandList", "m_CommandList">>>>

C10_IsStep(e) ==
    e[1] \in {"open", "Clear", "RenderView", "DeferredLightingPass::Render",
              "BlitTexture", "close", "executeCommandList"}

C10_RenderOrder ==
    (example = "deferred_shading" /\ lastCall = "Render") =>
        SelectSeq(frameLog, C10_IsStep) = C10_Steps

C10_Witness ==
    /\ example = "deferred_shading"
    /\ lastCall = "Render"
    /\ calls["Render"] = 2
    /\ Len(frameLog) > 7
\* C11: in deferred_shading, once Render has set up the view and recorded
\* its passes, m_RenderTargets is non-null and has the size of the
\* framebuffer given to that Render; when that Render allocated render
\* targets, the old ones were released before the allocation and the
\* allocation came before SetupView and before the passes.
ReleaseRenderTargets == <<"release", "m_RenderTargets">>
SetupViewCall == <<"SetupView", "m_View">>

C11_RenderTargetsMatchFramebuffer ==
    (example = "deferred_shading" /\ calls["Render"] > 0) =>
        /\ m_RenderTargets.valid
        /\ m_RenderTargets.size = fbinfo
        /\ Count(SetupViewCall, frameLog) = 1
        /\ Before(SetupViewCall, CommandListOpen, frameLog)
        /\ InLog(RenderTargetsInit, frameLog) =>
             /\ Count(ReleaseRenderTargets, frameLog) = 1
             /\ Before(ReleaseRenderTargets, RenderTargetsInit, frameLog)
             /\ Before(RenderTargetsInit, SetupViewCall, frameLog)

C11_Witness ==
    /\ example = "deferred_shading"
    /\ lastCall = "Render"
    /\ calls["Render"] = 3
    /\ rtAllocs = 3
    /\ fbinfo[1] # fbinfo[2]

\* C12: in basic_triangle and vertex_buffer, a Render creates a graphics
\* pipeline exactly when m_Pipeline is null, which it is only before the
\* first Render and after a BackBufferResizing, and leaves a pipeline
\* behind; in deferred_shading a Render creates the G-buffer fill pass only
\* when it has just allocated the render targets.
CreatePipelineCall == <<"createGraphicsPipeline", "m_Pipeline">>
CreateGBufferPassCall == <<"GBufferFillPass::Init", "m_GBufferPass">>

C12_RenderStep ==
    calls'["Render"] = calls["Render"] + 1 =>
        /\ example \in {"basic_triangle", "vertex_buffer"} =>
             /\ pipelineCreates' = pipelineCreates + (IF m_Pipeline THEN 0 ELSE 1)
             /\ Count(CreatePipelineCall, frameLog') = (IF m_Pipeline THEN 0 ELSE 1)
             /\ m_Pipeline'
        /\ example = "deferred_shading" =>
             /\ gbufferCreates' - gbufferCreates = rtAllocs' - rtAllocs
             /\ Count(CreateGBufferPassCall, frameLog') = Count(RenderTargetsInit, frameLog')
             /\ m_GBufferPass'

C12_PipelineLost ==
    (m_Pipeline /\ ~m_Pipeline') => calls'["BackBufferResizing"] = calls["BackBufferResizing"] + 1

C12_PipelineCached == [][C12_RenderStep /\ C12_PipelineLost]_vars

C12_Witness ==
    /\ example = "basic_triangle"
    /\ lastCall = "Render"
    /\ calls["Render"] = 3
    /\ calls["BackBufferResizing"] = 1
    /\ pipelineCreates = 2

\* C13 as stated: after BackBufferResizing the size-dependent resources are
\* invalid: the pipeline in basic_triangle and vertex_buffer, the render
\* targets and the G-buffer pass in deferred_shading.
C13_ResizingInvalidates ==
    lastCall = "BackBufferResizing" =>
        /\ example \in {"basic_triangle", "vertex_buffer"} => ~m_Pipeline
        /\ example = "deferred_shading" => (~m_RenderTargets.valid /\ ~m_GBufferPass)

\* C13 amended: in basic_triangle and vertex_buffer the pipeline is null
\* after BackBufferResizing, until the next Render; in deferred_shading
\* BackBufferResizing changes neither the render targets nor the G-buffer
\* pass, and they are replaced by the next Render whose framebuffer size
\* differs from the render targets' size.
C13_State ==
    (lastCall = "BackBufferResizing" /\ example \in {"basic_triangle", "vertex_buffer"})
        => ~m_Pipeline

C13_Step ==
    example = "deferred_shading" =>
        /\ calls'["BackBufferResizing"] # calls["BackBufferResizing"] =>
             (m_RenderTargets' = m_RenderTargets /\ m_GBufferPass' = m_GBufferPass)
        /\ (calls'["Render"] # calls["Render"] /\ m_RenderTargets.valid
                /\ m_RenderTargets.size # fbinfo') =>
             /\ rtAllocs' = rtAllocs + 1
             /\ gbufferCreates' = gbufferCreates + 1
             /\ m_RenderTargets' = [valid |-> TRUE, size |-> fbinfo']

C13_ResizingInvalidatesPipeline == []C13_State /\ [][C13_Step]_vars

C13_Witness ==
    /\ example = "vertex_buffer"
    /\ lastCall = "BackBufferResizing"
    /\ pipelineCreates > 0
    /\ ~m_Pipeline
\* C14: SimpleScene::Init that returns true has made all six scene-graph
\* mutations (SetRootNode, SetLeaf, SetName, AttachLeafNode, SetDirection,
\* SetName) before its one Refresh; no later handler changes the scene
\* graph or records a mutation, so every Render reads a refreshed scene.
SceneMutation(e) ==
    e[1] \in {"SetRootNode", "SetLeaf", "SetName", "AttachLeafNode", "SetDirection"}
RefreshCall == <<"Refresh", "m_SceneGraph">>

C14_State ==
    example = "deferred_shading" =>
        /\ (initResult = "true" /\ calls["Render"] = 0) =>
             /\ Count(RefreshCall, frameLog) = 1
             /\ Len(SelectSeq(frameLog, SceneMutation)) = 6
             /\ \A i \in 1..Len(frameLog) :
                  SceneMutation(frameLog[i]) => i < IndexOf(RefreshCall, frameLog)
        /\ calls["Render"] > 0 =>
             /\ initResult = "true"
             /\ Len(SelectSeq(frameLog, SceneMutation)) = 0

C14_Step == sceneGraph' # sceneGraph => calls'["Init"] = calls["Init"] + 1

C14_MutationsBeforeRefresh == []C14_State /\ [][C14_Step]_vars

C14_Witness ==
    /\ example = "deferred_shading"
    /\ initResult = "true"
    /\ lastCall = "Render"
    /\ calls["Animate"] > 0

(***************************************************************************)
(* C15                                                                     *)
(***************************************************************************)
GeometryBufferNames == {"IndexBuffer", "VertexBuffer", "VertexBufferTransform"}

IsBufferCall(e, op, name) == Len(e) = 5 /\ e[1] = op /\ e[2] = name

CallsOf(op, name, log) == {i \in 1..Len(log) : IsBufferCall(log[i], op, name)}

RECURSIVE SumOfSizes(_, _)
SumOfSizes(log, is) ==
    IF is = {} THEN 0
    ELSE LET i == CHOOSE j \in is : TRUE IN log[i][3] + SumOfSizes(log, is \ {i})

\* The command list is open at position i of the log.
OpenAt(log, i) ==
    \E o \in 1..(i - 1) :
        /\ log[o] = CommandListOpen
        /\ \A c \in (o + 1)..(i - 1) : log[c] # <<"close", "m_CommandList">>

PermanentStateOf(name) == IF name = "IndexBuffer" THEN "IndexBuffer" ELSE "VertexBuffer"

\* Init is the last handler that ran: frameLog holds the calls Init made.
InitLogState ==
    /\ example \in {"vertex_buffer", "deferred_shading"}
    /\ lastCall = "Init"
    /\ calls["Init"] = 1
    /\ calls["Render"] = 0

\* C15: every geometry buffer is created with the byte length of its data as
\* byteSize and in state CopyDest; it is written only while the command list
\* is open, after beginTrackingBufferState and before its one
\* setPermanentBufferState, which names VertexBuffer or IndexBuffer; no later
\* step writes it again.
C15_GeometryBufferUpload ==
    /\ InitLogState =>
          \A name \in GeometryBufferNames :
            LET creates == CallsOf("createBuffer", name, frameLog)
                tracks == CallsOf("beginTrackingBufferState", name, frameLog)
                writes == CallsOf("writeBuffer", name, frameLog)
                perms == CallsOf("setPermanentBufferState", name, frameLog)
            IN  /\ Cardinality(creates) <= 1
                /\ \A c \in creates : frameLog[c][5] = "CopyDest"
                /\ \A w \in writes :
                     /\ OpenAt(frameLog, w)
                     /\ \E c \in creates : c < w /\ frameLog[w][3] + frameLog[w][4] <= frameLog[c][3]
                     /\ \E t \in tracks : t < w /\ frameLog[t][5] = "CopyDest"
                     /\ \E q \in perms : w < q
                /\ \A q \in perms : frameLog[q][5] = PermanentStateOf(name)
                /\ (name \in DOMAIN buffers /\ buffers[name] # "null") =>
                     /\ Cardinality(perms) = 1
                     /\ \A c \in creates : frameLog[c][3] = SumOfSizes(frameLog, writes)
                     /\ buffers[name] = PermanentStateOf(name)
    /\ lastCall = "Render" =>
          \A name \in GeometryBufferNames : CallsOf("writeBuffer", name, frameLog) = {}

C15_Witness ==
    /\ example = "deferred_shading"
    /\ InitLogState
    /\ initResult = "true"
    /\ \A name \in GeometryBufferNames : buffers[name] # "null"
    /\ Cardinality(CallsOf("writeBuffer", "VertexBuffer", frameLog)) = 4
    /\ \E c \in CallsOf("createBuffer", "VertexBuffer", frameLog) : frameLog[c][3] > 4

(***************************************************************************)
(* C16                                                                     *)
(***************************************************************************)
\* The calls op of the log, in order.
RangeCalls(op, log) == SelectSeq(log, LAMBDA e : Len(e) = 5 /\ e[1] = op)

VertexRanges == RangeCalls("setVertexBufferRange", frameLog)

VertexWrites ==
    SelectSeq(frameLog, LAMBDA e : IsBufferCall(e, "writeBuffer", "VertexBuffer"))

\* C16: in SimpleScene::Init the ranges of Position, TexCoord1, Normal and
\* Tangent follow one another from offset 0 in that order, no two overlap,
\* the vertex buffer's byteSize is the sum of their sizes, and each
\* writeBuffer writes its attribute's size at its range's offset.
C16_VertexRangesConsecutive ==
    (example = "deferred_shading" /\ InitLogState) =>
        LET creates == CallsOf("createBuffer", "VertexBuffer", frameLog)
            ranges == VertexRanges
            writes == VertexWrites
        IN  creates # {} =>
            /\ Len(ranges) = 4
            /\ \A i \in 1..4 : ranges[i][2] = VertexAttribute[i]
            /\ ranges[1][4] = 0
            /\ \A i \in 1..3 : ranges[i + 1][4] = ranges[i][4] + ranges[i][3]
            /\ \A i, j \in 1..4 :
                 i # j => \/ ranges[i][4] + ranges[i][3] <= ranges[j][4]
                          \/ ranges[j][4] + ranges[j][3] <= ranges[i][4]
            /\ \A c \in creates :
                 frameLog[c][3] = ranges[1][3] + ranges[2][3] + ranges[3][3] + ranges[4][3]
            /\ Len(writes) \in {0, 4}
            /\ \A i \in 1..Len(writes) :
                 /\ writes[i][5] = VertexData[i]
                 /\ writes[i][3] = ranges[i][3]
                 /\ writes[i][4] = ranges[i][4]

C16_Witness ==
    /\ example = "deferred_shading"
    /\ InitLogState
    /\ Len(VertexWrites) = 4
    /\ Len(VertexRanges) = 4
    /\ VertexRanges[1][3] # VertexRanges[2][3]
    /\ VertexRanges[3][3] # VertexRanges[4][3]
    /\ VertexWrites[4][4] > VertexWrites[3][4]

(***************************************************************************)
(* C17                                                                     *)
(***************************************************************************)
MaterialCalls ==
    SelectSeq(frameLog, LAMBDA e : Len(e) = 5 /\ e[2] = "CubeMaterial")

LoadTextureCall == <<"LoadTextureFromFile", "nvidia-logo.png">>

\* C17: in deferred_shading the material constant buffer is built only when
\* the texture loaded: after a failed load no material constant buffer has
\* been created or written.
C17_MaterialOnlyOnSuccess ==
    (example = "deferred_shading" /\ InitLogState /\ texture = "null") =>
        /\ MaterialCalls = <<>>
        /\ "CubeMaterial" \notin DOMAIN buffers

\* C17 as the code has it: every SimpleScene::Init that reaches the texture
\* load creates the material constant buffer and writes it once, in full,
\* after the load and before the command list is closed, whether or not the
\* texture loaded; the texture is tested only afterwards, and a failed load
\* makes Init return false with the buffer already built.
C17_MaterialBuiltBeforeTextureTest ==
    (example = "deferred_shading" /\ InitLogState) =>
        LET material == MaterialCalls
        IN  /\ InitReturned =>
                 /\ InLog(LoadTextureCall, frameLog)
                 /\ Len(material) = 2
                 /\ material[1][1] = "createBuffer"
                 /\ material[1][5] = "ConstantBuffer"
                 /\ material[2][1] = "writeBuffer"
                 /\ material[2][3] = material[1][3]
                 /\ material[2][4] = 0
                 /\ Before(LoadTextureCall, material[1], frameLog)
                 /\ Before(material[1], material[2], frameLog)
                 /\ Before(material[2], <<"close", "m_CommandList">>, frameLog)
                 /\ buffers["CubeMaterial"] = "ConstantBuffer"
                 /\ (texture = "null") <=> (initResult = "false")
            /\ ~InitReturned =>
                 /\ material = <<>>
                 /\ ~InLog(LoadTextureCall, frameLog)

C17_Witness ==
    /\ example = "deferred_shading"
    /\ InitLogState
    /\ texture = "null"
    /\ initResult = "false"
    /\ Len(MaterialCalls) = 2
    /\ MaterialCalls[2][1] = "writeBuffer"

(***************************************************************************)
(* C18                                                                     *)
(***************************************************************************)
CommandListClose == <<"close", "m_CommandList">>
CommandListExecute == <<"executeCommandList", "m_CommandList">>

\* The calls that record a command into the command list.
RecordsCommand(e) ==
    e[1] \in {"beginTrackingBufferState", "writeBuffer", "setPermanentBufferState",
              "LoadTextureFromFile", "ClearColorAttachment", "setGraphicsState", "draw",
              "drawIndexed", "Clear", "RenderView", "DeferredLightingPass::Render",
              "BlitTexture"}

\* Walks the log from position i with the command list open or not: "bad"
\* when a call breaks the discipline, else how the command list is left.
RECURSIVE CommandListAfter(_, _, _)
CommandListAfter(log, i, open) ==
    IF i > Len(log) THEN (IF open THEN "open" ELSE "closed")
    ELSE IF log[i] = CommandListOpen
         THEN IF open THEN "bad" ELSE CommandListAfter(log, i + 1, TRUE)
    ELSE IF log[i] = CommandListClose
         THEN IF open /\ i < Len(log) /\ log[i + 1] = CommandListExecute
              THEN CommandListAfter(log, i + 1, FALSE) ELSE "bad"
    ELSE IF log[i] = CommandListExecute
         THEN IF ~open /\ i > 1 /\ log[i - 1] = CommandListClose
              THEN CommandListAfter(log, i + 1, FALSE) ELSE "bad"
    ELSE IF RecordsCommand(log[i])
         THEN IF open THEN CommandListAfter(log, i + 1, open) ELSE "bad"
    ELSE CommandListAfter(log, i + 1, open)

\* C18: in all three examples the command list is never opened while open,
\* commands are recorded only while it is open, and when Init or Render has
\* returned every open has had its one close and its one executeCommandList,
\* also when Init returns false for the texture.
C18_CommandListDiscipline ==
    /\ pc # "crashed" => ~cmdOpen
    /\ (lastCall \in {"Init", "Render"}) =>
         LET after == CommandListAfter(frameLog, 1, FALSE)
             opens == Count(CommandListOpen, frameLog)
         IN  /\ after # "bad"
             /\ pc # "crashed" =>
                  /\ after = "closed"
                  /\ opens = Count(CommandListClose, frameLog)
                  /\ opens = Count(CommandListExecute, frameLog)
             /\ lastCall = "Render" => opens = 1

C18_Witness ==
    /\ example = "vertex_buffer"
    /\ InitLogState
    /\ texture = "null"
    /\ initResult = "false"
    /\ Count(CommandListOpen, frameLog) = 1
    /\ Count(CommandListExecute, frameLog) = 1
    /\ \E i \in 1..Len(frameLog) : RecordsCommand(frameLog[i])

(***************************************************************************)
(* C19                                                                     *)
(***************************************************************************)
BindingCacheClear == <<"BindingCache::Clear", "m_BindingCache">>
LightingResetBindingCache == <<"ResetBindingCache", "m_DeferredLightingPass">>
GBufferPassReset == <<"reset", "m_GBufferPass">>
InvalidationCalls == {BindingCacheClear, LightingResetBindingCache, GBufferPassReset}

\* The log of the last Render: what it did before it opened the command
\* list, where nothing is recorded yet.
C19_State ==
    (example = "deferred_shading" /\ lastCall = "Render") =>
        LET open == IndexOf(CommandListOpen, frameLog)
            head == SubSeq(frameLog, 1, open - 1)
            tail == SubSeq(frameLog, open, Len(frameLog))
        IN  /\ InLog(CommandListOpen, frameLog)
            /\ \A c \in InvalidationCalls \cup {RenderTargetsInit, CreateGBufferPassCall} :
                 ~InLog(c, tail)
            /\ InLog(<<"RenderView", "m_GBufferPass">>, tail)
            /\ m_GBufferPass
            /\ IF InLog(RenderTargetsInit, head)
               THEN /\ \A c \in InvalidationCalls :
                         /\ Count(c, head) = 1
                         /\ Before(ReleaseRenderTargets, c, head)
                         /\ Before(c, RenderTargetsInit, head)
                    /\ Before(RenderTargetsInit, CreateGBufferPassCall, head)
               ELSE /\ \A c \in InvalidationCalls : ~InLog(c, head)
                    /\ ~InLog(CreateGBufferPassCall, head)

C19_Step ==
    (example = "deferred_shading" /\ calls'["Render"] = calls["Render"] + 1) =>
        /\ (rtAllocs' # rtAllocs) <=> InLog(RenderTargetsInit, frameLog')
        /\ IF rtAllocs' # rtAllocs
           THEN gbufferCreates' = gbufferCreates + 1
           ELSE /\ m_GBufferPass' = m_GBufferPass
                /\ gbufferCreates' = gbufferCreates
                /\ m_RenderTargets' = m_RenderTargets

\* C19: in deferred_shading a Render that reallocates the render targets
\* clears the binding cache, resets the lighting pass's binding cache and
\* drops the G-buffer fill pass in the same step, before the new render
\* targets are made and before the command list is opened, and builds the
\* pass anew before it renders; a Render that does not reallocate makes none
\* of these calls and keeps the pass and the render targets.
C19_ReallocationInvalidates == []C19_State /\ [][C19_Step]_vars

C19_Witness ==
    /\ example = "deferred_shading"
    /\ calls["Render"] >= 2
    /\ rtAllocs >= 2
    /\ InLog(BindingCacheClear, frameLog)
    /\ InLog(CreateGBufferPassCall, frameLog)
    /\ m_GBufferPass

(***************************************************************************)
(* C20                                                                     *)
(***************************************************************************)
c_ConstantBufferOffsetSizeAlignment == 256

BindingRanges ==
    SelectSeq(frameLog, LAMBDA e : IsBufferCall(e, "CreateBindingSetAndLayout", "ConstantBuffer"))

ConstantBufferWrites ==
    SelectSeq(frameLog, LAMBDA e : IsBufferCall(e, "writeBuffer", "ConstantBuffer"))

ConstantBufferSize == c_ConstantBufferOffsetSizeAlignment * c_NumViews

\* C20: in vertex_buffer the constant buffer has 256 * c_NumViews bytes and
\* binding set i binds [256*i, 256*i + 256): offsets and sizes are multiples
\* of 256, the ranges are pairwise disjoint, lie inside the buffer and cover
\* it exactly, and Render's upload writes exactly 256 * c_NumViews bytes.
C20_ConstantBufferSlices ==
    example = "vertex_buffer" =>
        /\ InitLogState =>
             /\ \A c \in CallsOf("createBuffer", "ConstantBuffer", frameLog) :
                  frameLog[c][3] = ConstantBufferSize
             /\ BindingRanges # <<>> => CallsOf("createBuffer", "ConstantBuffer", frameLog) # {}
             /\ Len(BindingRanges) <= c_NumViews
             /\ \A k \in 1..Len(BindingRanges) :
                  /\ BindingRanges[k][5] = ViewName[k]
                  /\ BindingRanges[k][4] = c_ConstantBufferOffsetSizeAlignment * (k - 1)
                  /\ BindingRanges[k][3] = c_ConstantBufferOffsetSizeAlignment
                  /\ BindingRanges[k][4] % c_ConstantBufferOffsetSizeAlignment = 0
                  /\ BindingRanges[k][3] % c_ConstantBufferOffsetSizeAlignment = 0
                  /\ BindingRanges[k][4] + BindingRanges[k][3] <= ConstantBufferSize
             /\ \A j, k \in 1..Len(BindingRanges) :
                  j # k => \/ BindingRanges[j][4] + BindingRanges[j][3] <= BindingRanges[k][4]
                           \/ BindingRanges[k][4] + BindingRanges[k][3] <= BindingRanges[j][4]
             /\ initResult = "true" =>
                  /\ Len(BindingRanges) = c_NumViews
                  /\ \A b \in 0..(c_NumViews - 1) :
                       Cardinality({k \in 1..Len(BindingRanges) :
                           /\ BindingRanges[k][4] <= c_ConstantBufferOffsetSizeAlignment * b
                           /\ c_ConstantBufferOffsetSizeAlignment * (b + 1)
                                <= BindingRanges[k][4] + BindingRanges[k][3]}) = 1
        /\ lastCall = "Render" =>
             LET writes == ConstantBufferWrites
             IN  /\ Len(writes) = 1
                 /\ writes[1][3] = ConstantBufferSize
                 /\ writes[1][4] = 0

C20_Witness ==
    /\ example = "vertex_buffer"
    /\ InitLogState
    /\ initResult = "true"
    /\ Len(BindingRanges) = c_NumViews
    /\ BindingRanges[c_NumViews][4] = 768
    /\ \E c \in CallsOf("createBuffer", "ConstantBuffer", frameLog) : frameLog[c][3] = 1024

(***************************************************************************)
(* C21                                                                     *)
(***************************************************************************)
IsCall(e, op) == e[1] = op

\* The positions in the log of the calls op.
PositionsOf(op, log) == {i \in 1..Len(log) : IsCall(log[i], op)}

\* C21: in every vertex_buffer Render the one upload of all constant buffer
\* slices is recorded before any draw; exactly c_NumViews = 4 indexed draws
\* are recorded, each right after its setGraphicsState; the state of draw i
\* has binding set i and viewport i, the cell of column i % 2 and row i / 2 of
\* the 2x2 grid; each draw has all 36 indices of g_Indices, and every index
\* is less than the 24 vertices of g_Vertices.
C21_DrawsPerView ==
    (example = "vertex_buffer" /\ lastCall = "Render") =>
        LET uploads == CallsOf("writeBuffer", "ConstantBuffer", frameLog)
            states == SelectSeq(frameLog, LAMBDA e : IsCall(e, "setGraphicsState"))
            draws == SelectSeq(frameLog, LAMBDA e : IsCall(e, "drawIndexed"))
            statePos == PositionsOf("setGraphicsState", frameLog)
            drawPos == PositionsOf("drawIndexed", frameLog)
        IN  /\ Cardinality(uploads) = 1
            /\ \A u \in uploads :
                 /\ frameLog[u][3] = Sizeof_ConstantBufferEntry * c_NumViews
                 /\ \A p \in statePos \cup drawPos : u < p
            /\ c_NumViews = 4
            /\ Len(draws) = 4
            /\ Len(states) = 4
            /\ \A p \in statePos : p + 1 \in drawPos
            /\ \A p \in drawPos : p - 1 \in statePos
            /\ \A k \in 1..Len(states) :
                 LET i == k - 1
                 IN  /\ states[k][2] = "m_BindingSets"
                     /\ states[k][3] = i
                     /\ states[k][4] = viewports[k].minX
                     /\ states[k][5] = viewports[k].maxX
                     /\ states[k][6] = viewports[k].minY
                     /\ states[k][7] = viewports[k].maxY
                     /\ 2 * states[k][4] = ToFloat(fbinfo[1]) * (i % 2)
                     /\ 2 * states[k][6] = ToFloat(fbinfo[2]) * (i \div 2)
                     /\ 2 * (states[k][5] - states[k][4]) = ToFloat(fbinfo[1])
                     /\ 2 * (states[k][7] - states[k][6]) = ToFloat(fbinfo[2])
            /\ \A k \in 1..Len(draws) :
                 /\ draws[k][2] = "m_IndexBuffer"
                 /\ draws[k][3] = 36
                 /\ draws[k][3] = Len(g_Indices)
            /\ Dim_g_Vertices = 24
            /\ \A k \in 1..Len(g_Indices) : 0 <= g_Indices[k] /\ g_Indices[k] < 24

C21_Witness ==
    /\ example = "vertex_buffer"
    /\ lastCall = "Render"
    /\ calls["Render"] >= 2
    /\ buffers["IndexBuffer"] = "IndexBuffer"
    /\ buffers["VertexBuffer"] = "VertexBuffer"
    /\ fbinfo[1] # fbinfo[2]
    /\ fbinfo[1] % 2 = 1
    /\ Cardinality(PositionsOf("drawIndexed", frameLog)) = 4
    /\ \E p \in PositionsOf("setGraphicsState", frameLog) :
         frameLog[p][3] = 3 /\ frameLog[p][4] > 0 /\ frameLog[p][6] > 0

====
